---------------------------- MODULE Spec2Model ----------------------------
(***************************************************************************)
(* Real-time delivery subsystem of the learning-management backend:        *)
(*   - ConnectionManager (services/notification.py): per-user lists of     *)
(*     live WebSockets, connect / disconnect / send_notification;          *)
(*   - the notification event handlers and their store;                    *)
(*   - create_message and its Redis fixed-window rate limit                *)
(*     (services/message.py);                                              *)
(*   - create_dialog and its enrolment check (services/message.py).        *)
(* The code runs on one asyncio event loop: the code between two awaits is *)
(* one atomic step, and any other coroutine may run at an await.           *)
(***************************************************************************)
EXTENDS Integers, Sequences, FiniteSets, TLC

\* ------------------------------------------------------------------ bounds
NumUsers == 3
NumConns == 2
NumCalls == 1
MaxNotifications == 1
MaxDialogs == 2          \* create_dialog is not called on a fuller table
NumDialogCalls == 2      \* get_or_create_dialog / create_dialog coroutines
TickSeconds == 30       \* the clock advances in steps of this many seconds
MaxTicks == 3
MaxMessages == 6        \* create_message is not called on a fuller table
MaxExcess == 1          \* ... nor by a sender this far over the limit

\* program constants
Window == 60            \* redis.expire(key, 60)
MessageLimit == 5       \* if count > 5

Users == 1..NumUsers
\* the course of the fixture and an id no course has
Courses == {1, 2}
Conns == 1..NumConns
Calls == 1..NumCalls
DCallIds == 1..NumDialogCalls
NoUser == 0
NoConn == 0
NoNotif == 0

\* NotificationType (models/notification.py)
NotificationType == {"new_grade", "new_message", "submission_status"}

VARIABLES
    active_connections, \* ConnectionManager.active_connections: dict user -> list of sockets
    ws,                 \* notification handle_websocket coroutine of each socket, and
                        \* whether connect() was called a second time for it
    notifications,      \* rows of the notifications table
    calls,              \* one record per send_notification coroutine
    disconnected,       \* sockets for which a disconnect() call has returned
    failedSends         \* sockets on which a send_json has raised

registryVars ==
    <<active_connections, ws, notifications, calls, disconnected, failedSends>>

VARIABLES
    now,                \* wall clock, seconds
    redis,              \* the rate-limit keys: counter and expiry time per sender
    winStart,           \* per key: when the INCR that returned 1 was executed
    reqs,               \* one record per create_message coroutine
    messages,           \* rows of the messages table, in insertion order
    chat                \* the chat handle_websocket coroutine of one socket

messageVars == <<now, redis, winStart, reqs, messages, chat>>

VARIABLES
    courses,            \* ids of the rows of the courses table
    enrolments,         \* (course, user) -> status of the enrolment row, or "none"
    dialogs,            \* rows of the dialogs table
    dcalls,             \* one record per create_dialog / get_or_create_dialog coroutine
    unique_index        \* whether the dialogs table has ix_dialogs_course_teacher_student

dialogVars == <<courses, enrolments, dialogs, dcalls, unique_index>>

VARIABLES
    patch,              \* the PATCH /notifications/{notification_id} request in progress
                        \* or answered last
    listing             \* what the last get_messages returned, and for which dialog

requestVars == <<patch, listing>>

VARIABLES
    tg_redis,           \* the bot's rate-limit keys: counter and expiry time per key
    tg_call,            \* the _check_rate_limit coroutine
    bind_tokens,        \* the telegram:bind_token:<token> keys and their values
    binds,              \* the POST /telegram/bind requests
    telegram_id         \* users.telegram_id

telegramVars == <<tg_redis, tg_call, bind_tokens, binds, telegram_id>>

VARIABLES
    course_roles,       \* rows of the course_roles table
    role_request        \* the last request to the course role routes and its response

roleVars == <<course_roles, role_request>>

vars == <<registryVars, messageVars, dialogVars, requestVars, telegramVars, roleVars>>

\* ------------------------------------------------------- python list helpers
Contains(s, c) == \E i \in DOMAIN s : s[i] = c

FirstIndex(s, c) == CHOOSE i \in DOMAIN s : s[i] = c /\ \A j \in 1..(i - 1) : s[j] # c

\* list.remove(x): drops the first occurrence (the caller has checked Contains)
ListRemove(s, c) ==
    LET k == FirstIndex(s, c)
    IN  [i \in 1..(Len(s) - 1) |-> IF i < k THEN s[i] ELSE s[i + 1]]

Elems(s) == {s[i] : i \in DOMAIN s}

\* ------------------------------------------------------- ConnectionManager
\* connect(): the registry after `websocket` is appended under user_id
connect(ac, c, u) ==
    IF u \in DOMAIN ac
        THEN [ac EXCEPT ![u] = Append(@, c)]
        ELSE ac @@ (u :> <<c>>)

\* `await websocket.accept()` in connect(): whether it can raise. The first
\* accept of a socket returns. What accept does on a socket that has been
\* accepted is decided by the websocket object passed in, which connect() does
\* not inspect: it may raise or return.
accept_raises(pc) == IF pc = "new" THEN {FALSE} ELSE BOOLEAN

\* connect() as a whole: accept, then the append unless accept raised
connect_call(ac, c, u, raised) == IF raised THEN ac ELSE connect(ac, c, u)

\* A disconnect that removes the socket and keeps the emptied list.
disconnectLeavesKey(ac, c, u) ==
    IF u \notin DOMAIN ac
        THEN [raised |-> FALSE, ac |-> ac]
    ELSE IF \A i \in DOMAIN ac[u] : ac[u][i] # c
        THEN [raised |-> TRUE, ac |-> ac]
    ELSE [raised |-> FALSE,
          ac |-> [ac EXCEPT ![u] = ListRemove(ac[u], c)]]

\* A disconnect that forgets to remove the socket.
disconnectKeeps(ac, c, u) == [raised |-> FALSE, ac |-> ac]

\* disconnect(): the registry afterwards, and whether list.remove raised
\* ValueError because the socket is not in the user's list
disconnect(ac, c, u) ==
    IF u \notin DOMAIN ac
        THEN [raised |-> FALSE, ac |-> ac]
    ELSE IF ~Contains(ac[u], c)
        THEN [raised |-> TRUE, ac |-> ac]
    ELSE LET rest == ListRemove(ac[u], c)
         IN  [raised |-> FALSE,
              ac |-> IF rest = <<>>
                        THEN [v \in (DOMAIN ac) \ {u} |-> ac[v]]
                        ELSE [ac EXCEPT ![u] = rest]]

\* An except-branch that swallows the send error without deregistering.
onSendErrorIgnores(ac, c, u) == [raised |-> FALSE, ac |-> ac]

\* the except-branch of send_notification: self.disconnect(connection, user_id)
onSendError(ac, c, u) == disconnect(ac, c, u)

\* A lookup that ignores the user key and takes the first bucket of the map.
bucketOfAnyUser(ac, u) ==
    IF DOMAIN ac = {} THEN <<>>
    ELSE ac[CHOOSE v \in DOMAIN ac : \A w \in DOMAIN ac : v <= w]

\* self.active_connections[user_id], the list object send_notification iterates
bucket(ac, u) == IF u \in DOMAIN ac THEN ac[u] ELSE <<>>

IdleCall ==
    [pc |-> "idle", user |-> NoUser, notif |-> NoNotif, idx |-> 0, cur |-> NoConn,
     live |-> TRUE, quiet |-> TRUE, todo |-> {}, seen |-> {}, again |-> FALSE,
     afterGone |-> FALSE, afterFailed |-> FALSE]

\* a call that has ended keeps its outcome only
Ended(call, how) == [IdleCall EXCEPT !.pc = how]

\* The list object a running send_notification iterates.  A bucket whose last
\* socket is removed is deleted from the dict; a later connect() creates a new
\* list, and an iterator over the old one sees an empty list from then on.
IterList(call, ac) == IF call.live THEN bucket(ac, call.user) ELSE <<>>

\* one step of `for connection in <list>`: the list iterator hands out the
\* element at its index and advances, or stops when the index is past the end;
\* the loop body then calls connection.send_json
IterNext(call, ac) ==
    LET L == IterList(call, ac)
    IN  IF call.idx < Len(L)
            THEN [call EXCEPT !.pc = "sending",
                              !.cur = L[call.idx + 1],
                              !.idx = call.idx + 1,
                              !.todo = @ \ {L[call.idx + 1]},
                              !.again = @ \/ L[call.idx + 1] \in call.seen,
                              !.seen = @ \cup {L[call.idx + 1]}]
            ELSE Ended(call, "done")

\* The registry changes from ac to ac2: a running iterator over a bucket that
\* was deleted is detached (live), and a call whose bucket was changed by
\* another coroutine than itself is no longer undisturbed (quiet).
Touch(cs, ac, ac2, self) ==
    [t \in Calls |->
        IF cs[t].pc = "sending" /\ bucket(ac, cs[t].user) # bucket(ac2, cs[t].user)
            THEN [cs[t] EXCEPT !.live = cs[t].live /\ cs[t].user \in DOMAIN ac2,
                               !.quiet = cs[t].quiet /\ t = self]
            ELSE cs[t]]

\* Users are interchangeable: an action takes a user that already appears in a
\* socket or a notification row, or the lowest-numbered user that does not.
KnownUsers ==
    ({ws[c].user : c \in Conns} \cup {n.user_id : n \in notifications}) \ {NoUser}

UserChoices ==
    KnownUsers \cup {u \in Users \ KnownUsers : \A v \in Users \ KnownUsers : u <= v}

\* ------------------------------------------------------------------- init
\* the row test_websocket_notifications adds before it calls send_notification
TestRow == [id |-> 1, user_id |-> 1, type |-> "new_grade", delivered |-> FALSE]

\* the Telegram bot: no rate-limit key, no call, no bind token, nobody bound
GLOBAL_RATE_LIMIT == 100
USER_RATE_LIMIT == 20
TgWindow == 60          \* redis.expire(global_key, 60), redis.expire(user_key, 60)

\* the key telegram:rate_limit:global; the key of a user is the user's id
GlobalKey == -1

TgKeys == {GlobalKey} \cup Users

\* _check_rate_limit(user_id) is called for a user, or with the default None
TgCallers == {NoUser, 1}

IdleTgCall == [pc |-> "idle", user |-> NoUser, at |-> 0, global0 |-> 0, user0 |-> 0]

NumBinds == 2

BindCalls == 1 .. NumBinds

\* the one bind token that is generated
Tokens == {1}

\* the Telegram accounts that are bound
TelegramIds == {7, 8}

TOKEN_TTL == 900        \* redis.set(..., ex=900); expires_at = utcnow() + 15 minutes

IdleBind == [pc |-> "idle", token |-> 0, user_id |-> NoUser, telegram_id |-> 0]

TelegramIdle ==
    /\ tg_redis = [count |-> [k \in TgKeys |-> 0],
                   expire |-> [k \in TgKeys |-> 0],
                   since |-> [k \in TgKeys |-> 0]]
    /\ tg_call = IdleTgCall
    /\ bind_tokens = {}
    /\ binds = [b \in BindCalls |-> IdleBind]
    /\ telegram_id = [u \in Users |-> 0]

\* course 1 and the role row of its owner, user 1
OwnerRole == [course_id |-> 1, user_id |-> 1, role |-> "owner"]

IdleRoleRequest == [pc |-> "idle", caller |-> NoUser, course_id |-> 0, user_id |-> NoUser]

RolesFixture ==
    /\ course_roles = {OwnerRole}
    /\ role_request = IdleRoleRequest

\* no PATCH request has been made
IdlePatch == [pc |-> "idle", id |-> NoNotif, caller |-> NoUser, before |-> FALSE]

NoListing == [dialog |-> 0, rows |-> <<>>]

PatchIdle == patch = IdlePatch /\ listing = NoListing

\* a fresh ConnectionManager, no socket opened yet, one notification row
RegistryEmpty ==
    /\ active_connections = <<>>
    /\ ws = [c \in Conns |-> [pc |-> "new", user |-> NoUser, twice |-> FALSE]]
    /\ notifications = {TestRow}
    /\ calls = [t \in Calls |-> IdleCall]
    /\ disconnected = {}
    /\ failedSends = {}

\* the scenario of the notification pipeline: user 1 has two live sockets,
\* 1 and 2, registered in that order; the notifications table is empty
RegistryTwoSockets ==
    /\ active_connections = (1 :> <<1, 2>>)
    /\ ws = [c \in Conns |->
                IF c \in {1, 2} THEN [pc |-> "open", user |-> 1, twice |-> FALSE]
                                ELSE [pc |-> "new", user |-> NoUser, twice |-> FALSE]]
    /\ notifications = {}
    /\ calls = [t \in Calls |-> IdleCall]
    /\ disconnected = {}
    /\ failedSends = {}

\* ---------------------------------------------------------------- actions
\* handle_websocket, first part: manager.connect(websocket, user_id).
\* Sockets are interchangeable: they are opened in the order of their numbers.
handle_websocket_connect(c, u) ==
    /\ ws[c].pc = "new"
    /\ \A b \in Conns : b < c => ws[b].pc # "new"
    /\ \E raised \in accept_raises(ws[c].pc) :
          LET ac2 == connect_call(active_connections, c, u, raised)
          IN  /\ active_connections' = ac2
              /\ calls' = Touch(calls, active_connections, ac2, 0)
    /\ ws' = [ws EXCEPT ![c] = [pc |-> "open", user |-> u, twice |-> FALSE]]
    /\ UNCHANGED <<notifications, disconnected, failedSends, messageVars, dialogVars, requestVars, telegramVars, roleVars>>

\* manager.connect(websocket, user_id) is called once more for a socket that
\* handle_websocket has connected (for one socket at most)
connect_twice(c) ==
    /\ ws[c].pc = "open"
    /\ \A b \in Conns : ~ws[b].twice
    /\ \E raised \in accept_raises(ws[c].pc) :
          LET ac2 == connect_call(active_connections, c, ws[c].user, raised)
          IN  /\ active_connections' = ac2
              /\ calls' = Touch(calls, active_connections, ac2, 0)
    /\ ws' = [ws EXCEPT ![c].twice = TRUE]
    /\ UNCHANGED <<notifications, disconnected, failedSends, messageVars, dialogVars, requestVars, telegramVars, roleVars>>

\* handle_websocket, the receive loop ends with an exception (client closed,
\* receive error): except Exception: manager.disconnect(websocket, user_id)
handle_websocket_closed(c) ==
    /\ ws[c].pc = "open"
    /\ LET r == disconnect(active_connections, c, ws[c].user)
       IN  /\ active_connections' = r.ac
           /\ calls' = Touch(calls, active_connections, r.ac, 0)
           /\ ws' = [ws EXCEPT ![c].pc = IF r.raised THEN "raised" ELSE "closed"]
           /\ disconnected' = IF r.raised THEN disconnected ELSE disconnected \cup {c}
    /\ UNCHANGED <<notifications, failedSends, messageVars, dialogVars, requestVars, telegramVars, roleVars>>

\* handle_websocket, the handler task is cancelled while it waits in
\* receive_text: asyncio.CancelledError is a BaseException, `except Exception`
\* does not catch it and it leaves handle_websocket
handle_websocket_cancelled(c) ==
    /\ ws[c].pc = "open"
    /\ ws' = [ws EXCEPT ![c].pc = "cancelled"]
    /\ UNCHANGED <<active_connections, notifications, calls, disconnected, failedSends,
                   messageVars, dialogVars, requestVars, telegramVars, roleVars>>

\* create_notification: db.add, commit, refresh
create_notification(store, u, ty) ==
    store \cup {[id |-> Cardinality(store) + 1, user_id |-> u, type |-> ty,
                 delivered |-> FALSE]}

\* handle_new_grade / handle_new_message / handle_submission_status: build the
\* NotificationCreate of the event's type and call create_notification
emit(u, ty) ==
    /\ Cardinality(notifications) < MaxNotifications
    /\ notifications' = create_notification(notifications, u, ty)
    /\ UNCHANGED <<active_connections, ws, calls, disconnected, failedSends, messageVars,
                   dialogVars, requestVars, telegramVars, roleVars>>

handle_new_grade(u) == emit(u, "new_grade")

handle_new_message(u) == emit(u, "new_message")

handle_submission_status(u) == emit(u, "submission_status")

\* send_notification is called: `if user_id in self.active_connections`, then
\* the first iteration of the loop up to its await.  Calls are interchangeable:
\* a new call takes the lowest slot that is not running.
send_notification_start(t, u, n) ==
    /\ calls[t].pc # "sending"
    /\ \A s \in Calls : s < t => calls[s].pc = "sending"
    /\ LET c0 == [IdleCall EXCEPT
                     !.user = u, !.notif = n.id,
                     !.todo = Elems(bucket(active_connections, u)),
                     !.afterGone = \E c \in disconnected : ws[c].user = u,
                     !.afterFailed = \E c \in failedSends : ws[c].user = u]
       IN  calls' = [calls EXCEPT ![t] =
                        IF u \in DOMAIN active_connections
                            THEN IterNext(c0, active_connections)
                            ELSE Ended(c0, "done")]
    /\ UNCHANGED <<active_connections, ws, notifications, disconnected,
                   failedSends, messageVars, dialogVars, requestVars, telegramVars, roleVars>>

\* the awaited send_json of the current socket ends, normally (ok) or with an
\* exception; then the except-branch and the next iteration up to its await.
\* Everything but the notifications table.
send_json_returns(t, ok) ==
    /\ calls[t].pc = "sending"
    /\ LET me == calls[t]
           r  == IF ok THEN [raised |-> FALSE, ac |-> active_connections]
                       ELSE onSendError(active_connections, me.cur, me.user)
           cs == Touch(calls, active_connections, r.ac, t)
       IN  /\ active_connections' = r.ac
           /\ failedSends' = IF ok THEN failedSends ELSE failedSends \cup {me.cur}
           /\ disconnected' = IF ok \/ r.raised THEN disconnected
                                                ELSE disconnected \cup {me.cur}
           /\ calls' = [cs EXCEPT ![t] =
                           IF r.raised THEN Ended(cs[t], "raised")
                                       ELSE IterNext(cs[t], r.ac)]
    /\ UNCHANGED <<ws, messageVars, dialogVars, requestVars, telegramVars, roleVars>>

\* A send_notification whose failed send also deletes the notification row.
send_notification_rollback(t, ok) ==
    /\ send_json_returns(t, ok)
    /\ notifications' = IF ok THEN notifications
                        ELSE {n \in notifications : n.id # calls[t].notif}

\* A send_notification that sets the delivered flag of the notification once a
\* send of it has returned.
send_notification_marks_delivered(t, ok) ==
    /\ send_json_returns(t, ok)
    /\ notifications' = IF ok
                            THEN {IF n.id = calls[t].notif
                                      THEN [n EXCEPT !.delivered = TRUE] ELSE n :
                                  n \in notifications}
                            ELSE notifications

\* send_notification resumes after its await; it has no access to the database
send_notification_resume(t, ok) ==
    /\ send_json_returns(t, ok)
    /\ UNCHANGED notifications

\* ------------------------------------------------------------ Redis keys
NoExpiry == 0

\* INCR: a key that does not exist counts from 0 and is created without expiry
RedisIncr(r, k) == [r EXCEPT !.count[k] = @ + 1]

\* EXPIRE key secs at time t: no effect on a key that does not exist
RedisExpire(r, k, secs, t) ==
    IF r.count[k] > 0 THEN [r EXCEPT !.expire[k] = t + secs] ELSE r

\* the keys whose expiry time has come are deleted
RedisPurge(r, t) ==
    [count  |-> [k \in Users |->
                    IF r.expire[k] # NoExpiry /\ r.expire[k] <= t THEN 0 ELSE r.count[k]],
     expire |-> [k \in Users |->
                    IF r.expire[k] # NoExpiry /\ r.expire[k] <= t THEN NoExpiry
                                                                  ELSE r.expire[k]]]

\* the bot's keys: redis.incr(key), then redis.expire(key, 60) if the count
\* is 1; `since` is when the count became 1
TgIncrExpire(r, k, t) ==
    IF r.count[k] = 0
        THEN [r EXCEPT !.count[k] = 1, !.expire[k] = t + TgWindow, !.since[k] = t]
        ELSE [r EXCEPT !.count[k] = @ + 1]

\* the bot's keys whose expiry time has come are deleted
TgPurge(r, t) ==
    [k2 \in {"count", "expire", "since"} |->
        [k \in TgKeys |->
            IF r.expire[k] # NoExpiry /\ r.expire[k] <= t THEN 0 ELSE r[k2][k]]]

\* --------------------------------------------------------- create_message
\* message bodies are sequences of tokens: tags and runs of text
Bodies == {<<"Hello">>}

allowed_tags == {"<p>", "</p>", "<br>", "<b>", "</b>", "<i>", "</i>", "<em>", "</em>",
                 "<strong>", "</strong>", "<a>", "</a>"}

\* an <a> tag whose href is a javascript: URL, and one with an http URL
AHrefJavascript == "<a href=javascript:alert(1)>"
AHrefHttp == "<a href=http://example.com>"

IsTag(tok) ==
    tok \in allowed_tags \cup {"<script>", "</script>", AHrefJavascript, AHrefHttp}

KeepToken(tok) == ~IsTag(tok) \/ tok \in allowed_tags \cup {AHrefJavascript, AHrefHttp}

\* attributes={"a": ["href", "title"]}: href is allowed on <a>, but an href
\* whose scheme is not one of bleach's protocols (http, https, mailto) is
\* dropped from the tag
CleanAttributes(tok) == IF tok = AHrefJavascript THEN "<a>" ELSE tok

\* bleach.clean(body, tags=allowed_tags, attributes=allowed_attrs, strip=True):
\* the markup of a tag outside the allow-list is stripped, its content stays;
\* text is kept as it is
bleach_clean(body) ==
    LET kept == SelectSeq(body, KeepToken)
    IN  [i \in DOMAIN kept |-> CleanAttributes(kept[i])]

\* the bodies of the sanitization scenarios: that of test_xss_protection, a
\* script element followed by a paragraph, a javascript: URL typed as text, an
\* ordinary link, and plain text
XssTestBody ==
    <<"<script>", "alert(XSS)", "</script>", "<p>", "Safe text", "</p>",
      AHrefJavascript, "Click me", "</a>">>

ScriptThenParagraph == <<"<script>", "alert(1)", "</script>", "<p>", "hi", "</p>">>

XssBodies ==
    {XssTestBody, ScriptThenParagraph, <<"javascript:alert(1)">>,
     <<AHrefHttp, "link", "</a>">>, <<"Hello">>}

\* the dialog of the fixture and an id no dialog has
DialogIds == {1, 2}

\* the users who post: the student of the fixture dialog and users who are no
\* party to it (the teacher's posts take the same path as the student's)
Senders == Users \ {1}

\* the users who open a chat socket: the teacher of the fixture dialog and
\* users who are no party to it
ChatUsers == Users \ {2}

IdleReq == [pc |-> "idle", dialog |-> 0, sender |-> NoUser, body |-> <<>>, count |-> 0,
            at |-> 0, since |-> 0, via |-> "http"]

\* a call that has returned or raised: its outcome, its dialog and its sender
Outcome(r, how) == [IdleReq EXCEPT !.pc = how, !.dialog = r.dialog, !.sender = r.sender]

IdleChat == [pc |-> "new", user |-> NoUser, dialog |-> 0]

Running(r) == r.pc \in {"incremented", "expired"}

DialogById(d) == {x \in dialogs : x.id = d}

\* A party check that lets any user through.
IsPartyAnyone(dlg, s) == TRUE

\* sender_id in (dialog.teacher_id, dialog.student_id)
IsParty(dlg, s) == s \in {dlg.teacher_id, dlg.student_id}

\* if count > 5
OverLimit(count) == count > MessageLimit

\* Message(dialog_id, sender_id, body), db.add, commit, refresh; created_at
\* defaults to datetime.utcnow
InsertMessage(rows, d, s, body, t) ==
    Append(rows, [id |-> Len(rows) + 1, dialog_id |-> d, sender_id |-> s,
                  body |-> body, created_at |-> t, read |-> FALSE])

\* mark_messages_as_read: the unread rows of the dialog that user_id did not
\* send get read = True
mark_messages_as_read(rows, d, u) ==
    [i \in DOMAIN rows |->
        IF rows[i].dialog_id = d /\ rows[i].sender_id # u
            THEN [rows[i] EXCEPT !.read = TRUE] ELSE rows[i]]

\* The chat handle_websocket after the create_message of a frame: on a return,
\* mark_messages_as_read and send_json, then the next receive_json; on any
\* exception, `except Exception: websocket.close(code=1011); raise`.
\* A call made over HTTP leaves the socket alone.
ChatAfter(r, how) ==
    IF r.via # "ws" THEN chat
    ELSE IF how = "created" THEN [chat EXCEPT !.pc = "accepted"]
    ELSE [chat EXCEPT !.pc = "closed_1011"]

\* the messages table after a create_message that returned the new row
RowsAfter(r, rows) ==
    IF r.via = "ws" THEN mark_messages_as_read(rows, r.dialog, r.sender) ELSE rows

\* A create_message that stores the row before it looks at the counter.
FinishMessageStoresFirst(p) ==
    /\ reqs' = [reqs EXCEPT ![p] =
                   Outcome(reqs[p], IF reqs[p].count > MessageLimit THEN "rate_limited"
                                                                     ELSE "created")]
    /\ messages' = InsertMessage(messages, reqs[p].dialog, reqs[p].sender,
                                 reqs[p].body, now)
    /\ chat' = chat

\* the tail of create_message: the limit check, sanitization and the commit
FinishMessage(p) ==
    IF OverLimit(reqs[p].count)
        THEN /\ reqs' = [reqs EXCEPT ![p] = Outcome(reqs[p], "rate_limited")]
             /\ chat' = ChatAfter(reqs[p], "rate_limited")
             /\ UNCHANGED messages
        ELSE /\ reqs' = [reqs EXCEPT ![p] = Outcome(reqs[p], "created")]
             /\ chat' = ChatAfter(reqs[p], "created")
             /\ messages' = RowsAfter(reqs[p],
                                InsertMessage(messages, reqs[p].dialog, reqs[p].sender,
                                              bleach_clean(reqs[p].body), now))

\* A create_message that lets the post through when Redis cannot be reached.
StoreErrorRowsFailOpen(rows, r) == InsertMessage(rows, r.dialog, r.sender, r.body, 0)

\* The messages table after a create_message whose redis.incr raised: the
\* exception leaves create_message, nothing is added.
StoreErrorRows(rows, r) == rows

\* create_message up to the return of redis.incr: db.get(Dialog) (404), the
\* sender check (403), then INCR message_rate:<sender_id>, which raises when
\* Redis cannot be reached (~up)
create_message_call(p, d, s, b, via, up) ==
    /\ ~Running(reqs[p])
    /\ \A q \in Calls : q < p => Running(reqs[q])
    /\ Len(messages) < MaxMessages
    /\ redis.count[s] < MessageLimit + MaxExcess
    /\ LET r0 == [IdleReq EXCEPT !.dialog = d, !.sender = s, !.body = b, !.via = via]
       IN  IF DialogById(d) = {}
               THEN /\ reqs' = [reqs EXCEPT ![p] = Outcome(r0, "not_found")]
                    /\ chat' = ChatAfter(r0, "not_found")
                    /\ UNCHANGED <<redis, winStart, messages>>
           ELSE IF \E dlg \in DialogById(d) : ~IsParty(dlg, s)
               THEN /\ reqs' = [reqs EXCEPT ![p] = Outcome(r0, "forbidden")]
                    /\ chat' = ChatAfter(r0, "forbidden")
                    /\ UNCHANGED <<redis, winStart, messages>>
           ELSE IF ~up
               THEN /\ reqs' = [reqs EXCEPT ![p] = Outcome(r0, "store_error")]
                    /\ chat' = ChatAfter(r0, "store_error")
                    /\ messages' = StoreErrorRows(messages, r0)
                    /\ UNCHANGED <<redis, winStart>>
           ELSE LET r2 == RedisIncr(redis, s)
                    w  == IF r2.count[s] = 1 THEN now ELSE winStart[s]
                IN  /\ redis' = r2
                    /\ winStart' = [winStart EXCEPT ![s] = w]
                    /\ reqs' = [reqs EXCEPT ![p] =
                                   [r0 EXCEPT !.pc = "incremented", !.count = r2.count[s],
                                              !.at = now, !.since = w]]
                    /\ chat' = IF via = "ws" THEN [chat EXCEPT !.pc = "busy"] ELSE chat
                    /\ UNCHANGED messages
    /\ UNCHANGED <<now, registryVars, dialogVars, requestVars, telegramVars, roleVars>>

\* POST /dialogs/{dialog_id}/messages: create_message(db, dialog_id,
\* current_user.id, message)
create_message_begin(p, d, s, b, up) ==
    create_message_call(p, d, s, b, "http", up)

\* a handle_websocket that awaits websocket.accept() before its two checks
chat_handle_websocket_accepts_first(u, d) ==
    /\ chat.pc = "new"
    /\ chat' = [pc |-> "accepted", user |-> u, dialog |-> d]
    /\ UNCHANGED <<now, redis, winStart, reqs, messages, registryVars, dialogVars, requestVars, telegramVars, roleVars>>

\* chat handle_websocket up to accept: db.get(Dialog), close(4004) if there is
\* none; close(4003) if the user is no party of it; else accept
chat_handle_websocket(u, d) ==
    /\ chat.pc = "new"
    /\ chat' = [pc |-> IF DialogById(d) = {} THEN "closed_4004"
                       ELSE IF \E dlg \in DialogById(d) : ~IsParty(dlg, u)
                                THEN "closed_4003"
                       ELSE "accepted",
                user |-> u, dialog |-> d]
    /\ UNCHANGED <<now, redis, winStart, reqs, messages, registryVars, dialogVars, requestVars, telegramVars, roleVars>>

\* chat handle_websocket, one frame: receive_json, MessageCreate(**data), then
\* create_message(db, dialog_id, user.id, message)
chat_receive(p, b, up) ==
    /\ chat.pc = "accepted"
    /\ create_message_call(p, chat.dialog, chat.user, b, "ws", up)

\* create_message from the return of redis.incr: `if count == 1` awaits
\* redis.expire(key, 60); otherwise it goes on to the limit check and the commit
create_message_after_incr(p) ==
    /\ reqs[p].pc = "incremented"
    /\ IF reqs[p].count = 1
           THEN /\ redis' = RedisExpire(redis, reqs[p].sender, Window, now)
                /\ reqs' = [reqs EXCEPT ![p].pc = "expired"]
                /\ UNCHANGED <<messages, chat>>
           ELSE /\ FinishMessage(p)
                /\ UNCHANGED redis
    /\ UNCHANGED <<now, winStart, registryVars, dialogVars, requestVars, telegramVars, roleVars>>

\* create_message from the return of redis.expire
create_message_after_expire(p) ==
    /\ reqs[p].pc = "expired"
    /\ FinishMessage(p)
    /\ UNCHANGED <<now, redis, winStart, registryVars, dialogVars, requestVars, telegramVars, roleVars>>

\* the coroutine ends at one of its awaits with an exception: the Redis or
\* database call raises, or the request task is cancelled
create_message_fails(p) ==
    /\ Running(reqs[p])
    /\ reqs' = [reqs EXCEPT ![p] = Outcome(reqs[p], "failed")]
    /\ chat' = ChatAfter(reqs[p], "failed")
    /\ UNCHANGED <<now, redis, winStart, messages, registryVars, dialogVars, requestVars, telegramVars, roleVars>>

\* time passes; Redis deletes the keys whose expiry time has come
Tick ==
    /\ now < MaxTicks * TickSeconds
    /\ now' = now + TickSeconds
    /\ redis' = RedisPurge(redis, now + TickSeconds)
    /\ winStart' = [k \in Users |->
                       IF RedisPurge(redis, now + TickSeconds).count[k] = 0 THEN 0
                                                                            ELSE winStart[k]]
    /\ tg_redis' = TgPurge(tg_redis, now + TickSeconds)
    /\ bind_tokens' = {k \in bind_tokens : k.ttl > now + TickSeconds}
    /\ UNCHANGED <<reqs, messages, chat, registryVars, dialogVars, requestVars, tg_call,
                   binds, telegram_id, roleVars>>

\* ------------------------------------------------------- _check_rate_limit
\* the first part of _check_rate_limit: INCR of the global key, EXPIRE 60 when
\* the count is 1, `if global_count > GLOBAL_RATE_LIMIT: return False`, and
\* `if user_id:`.  The call is not made by a caller who is further over a limit
\* than MaxExcess.
check_rate_limit_global(u) ==
    /\ tg_call.pc # "global_done"
    /\ tg_redis.count[GlobalKey] < GLOBAL_RATE_LIMIT + MaxExcess
    /\ u # NoUser => tg_redis.count[u] < USER_RATE_LIMIT + MaxExcess
    /\ LET r == TgIncrExpire(tg_redis, GlobalKey, now)
           c0 == [IdleTgCall EXCEPT !.user = u, !.at = now,
                                    !.global0 = tg_redis.count[GlobalKey],
                                    !.user0 = IF u = NoUser THEN 0 ELSE tg_redis.count[u]]
       IN  /\ tg_redis' = r
           /\ tg_call' = [c0 EXCEPT !.pc =
                             IF r.count[GlobalKey] > GLOBAL_RATE_LIMIT THEN "denied_global"
                             ELSE IF u = NoUser THEN "allowed"
                             ELSE "global_done"]
    /\ UNCHANGED <<registryVars, messageVars, dialogVars, requestVars, bind_tokens, binds,
                   telegram_id, roleVars>>

\* the second part: INCR of the user's key, EXPIRE 60 when the count is 1,
\* `if user_count > USER_RATE_LIMIT: return False`, else return True
check_rate_limit_user ==
    /\ tg_call.pc = "global_done"
    /\ LET r == TgIncrExpire(tg_redis, tg_call.user, now)
       IN  /\ tg_redis' = r
           /\ tg_call' = [tg_call EXCEPT !.pc =
                             IF r.count[tg_call.user] > USER_RATE_LIMIT THEN "denied_user"
                                                                        ELSE "allowed"]
    /\ UNCHANGED <<registryVars, messageVars, dialogVars, requestVars, bind_tokens, binds,
                   telegram_id, roleVars>>

\* -------------------------------------------------------------- bind tokens
\* POST /telegram/bind-token: a new token for current_user is stored in Redis
\* with a TTL of 15 minutes.  A token's name holds the time of its creation:
\* it is generated once.
generate_bind_token(k, u) ==
    /\ bind_tokens = {}
    /\ \A b \in BindCalls : binds[b].pc = "idle"
    /\ bind_tokens' = {[token |-> k, user_id |-> u, expires_at |-> now + TOKEN_TTL,
                        ttl |-> now + TOKEN_TTL]}
    /\ UNCHANGED <<tg_redis, tg_call, binds, telegram_id, registryVars, messageVars,
                   dialogVars, requestVars, roleVars>>

\* POST /telegram/bind up to its first database await: redis.get of the token's
\* key (400 when there is none), parse_raw, the expires_at check (the key is
\* deleted and the answer is 400 when it is past).  Requests are
\* interchangeable: a new one takes the lowest free slot.
bind_account_get(b, k, tid) ==
    /\ binds[b].pc = "idle"
    /\ \A a \in BindCalls : a < b => binds[a].pc # "idle"
    /\ LET found == {t \in bind_tokens : t.token = k}
           q == [IdleBind EXCEPT !.token = k, !.telegram_id = tid]
       IN  IF found = {}
               THEN /\ binds' = [binds EXCEPT ![b] = [q EXCEPT !.pc = "400_invalid"]]
                    /\ UNCHANGED bind_tokens
           ELSE LET t == CHOOSE t \in found : TRUE
                IN  IF now > t.expires_at
                        THEN /\ binds' = [binds EXCEPT ![b] = [q EXCEPT !.pc = "400_expired"]]
                             /\ bind_tokens' = bind_tokens \ found
                        ELSE /\ binds' = [binds EXCEPT ![b] =
                                            [q EXCEPT !.pc = "got", !.user_id = t.user_id]]
                             /\ UNCHANGED bind_tokens
    /\ UNCHANGED <<tg_redis, tg_call, telegram_id, registryVars, messageVars, dialogVars,
                   requestVars, roleVars>>

\* the select of the user (every user_id of a token is a row of users),
\* setattr(user, "telegram_id", payload.telegram_id) and the commit
bind_account_commit(b) ==
    /\ binds[b].pc = "got"
    /\ telegram_id' = [telegram_id EXCEPT ![binds[b].user_id] = binds[b].telegram_id]
    /\ binds' = [binds EXCEPT ![b].pc = "committed"]
    /\ UNCHANGED <<tg_redis, tg_call, bind_tokens, registryVars, messageVars, dialogVars,
                   requestVars, roleVars>>

\* redis.delete(token_key) and the answer 200, Telegram account bound
bind_account_delete(b) ==
    /\ binds[b].pc = "committed"
    /\ bind_tokens' = {t \in bind_tokens : t.token # binds[b].token}
    /\ binds' = [binds EXCEPT ![b].pc = "bound"]
    /\ UNCHANGED <<tg_redis, tg_call, telegram_id, registryVars, messageVars, dialogVars,
                   requestVars, roleVars>>

\* ------------------------------------------------------------ course roles
\* crud.course_role.get_by_course_and_user: the rows of the user in the course
get_by_course_and_user(rows, course, user) ==
    {r \in rows : r.course_id = course /\ r.user_id = user}

\* crud.course_role.remove_role: the row, whatever its role is, is deleted
remove_role(rows, course, user) ==
    rows \ get_by_course_and_user(rows, course, user)

\* crud.course_role.create_with_course, called directly as test_delete_role does,
\* for a user who has no role in the course yet
create_with_course(user, role) ==
    /\ get_by_course_and_user(course_roles, 1, user) = {}
    /\ course_roles' = course_roles \cup {[course_id |-> 1, user_id |-> user, role |-> role]}
    /\ UNCHANGED <<role_request, registryVars, messageVars, dialogVars, requestVars,
                   telegramVars>>

\* current_role = Depends(lambda: deps.require_course_role(course_id=course_id,
\* required_role=CourseRoleEnum.OWNER)): the framework calls the lambda without
\* arguments; course_id in its body is no parameter of the lambda and no global
\* of the module (the route's parameter is not in scope in a default value),
\* so the call raises NameError and the request is answered 500
current_role_dependency == "name_error"

\* DELETE /{course_id}/roles/{user_id}: the dependencies, then the body:
\* get_by_course_and_user (404 when there is no row), remove_role
delete_course_role(caller, course, user) ==
    /\ LET q == [pc |-> "idle", caller |-> caller, course_id |-> course, user_id |-> user]
       IN  IF current_role_dependency # "passed"
               THEN /\ role_request' = [q EXCEPT !.pc = "500"]
                    /\ UNCHANGED course_roles
           ELSE IF get_by_course_and_user(course_roles, course, user) = {}
               THEN /\ role_request' = [q EXCEPT !.pc = "404"]
                    /\ UNCHANGED course_roles
           ELSE /\ role_request' = [q EXCEPT !.pc = "200"]
                /\ course_roles' = remove_role(course_roles, course, user)
    /\ UNCHANGED <<registryVars, messageVars, dialogVars, requestVars, telegramVars>>

\* ------------------------------------------------------------ get_messages
\* the values of skip and limit that are tried: Query(ge=0), Query(ge=1, le=100)
Skips == {0, 1}
Limits == {2, 100}

\* the rows of a dialog
RowsOf(rows, d) == {rows[i] : i \in {j \in DOMAIN rows : rows[j].dialog_id = d}}

\* ORDER BY created_at DESC: every sequence of the rows in which created_at
\* never increases.  The statement names no second sort key, so rows with equal
\* created_at come in whatever order the database produces.
RECURSIVE OrderByCreatedAtDesc(_)
OrderByCreatedAtDesc(S) ==
    IF S = {} THEN {<<>>}
    ELSE UNION {{<<r>> \o t : t \in OrderByCreatedAtDesc(S \ {r})} :
                   r \in {x \in S : \A y \in S : y.created_at <= x.created_at}}

\* OFFSET skip LIMIT limit
OffsetLimit(seq, skip, limit) ==
    SubSeq(seq, skip + 1, IF skip + limit < Len(seq) THEN skip + limit ELSE Len(seq))

\* get_messages: the lists it can return
get_messages(rows, d, skip, limit) ==
    {OffsetLimit(o, skip, limit) : o \in OrderByCreatedAtDesc(RowsOf(rows, d))}

\* GET /dialogs/{dialog_id}/messages, requested once
route_get_messages(d, skip, limit) ==
    /\ listing = NoListing
    /\ \E res \in get_messages(messages, d, skip, limit) :
           listing' = [dialog |-> d, rows |-> res]
    /\ UNCHANGED <<patch, registryVars, messageVars, dialogVars, telegramVars, roleVars>>

\* a Message row is added to the table directly, as test_get_messages does
\* before it reads the list: db.add(Message(dialog_id, sender_id, body)), commit
db_add_message(d, s, b) ==
    /\ Len(messages) < MaxMessages
    /\ listing = NoListing
    /\ DialogById(d) # {}
    /\ messages' = InsertMessage(messages, d, s, b, now)
    /\ UNCHANGED <<now, redis, winStart, reqs, chat, registryVars, dialogVars, requestVars, telegramVars, roleVars>>

\* ----------------------------------------------------------- create_dialog
Statuses == {"invited", "active", "dropped"}

\* the teacher of the fixture course
Teachers == {1}

IdleDCall == [pc |-> "idle", course |-> 0, teacher |-> NoUser, student |-> NoUser]

DRunning(r) == r.pc \in {"creating", "course_ok", "enrolled"}

\* A check that takes any enrolment row, whatever its status.
HasAnyEnrolment(enr, c, s) == enr[<<c, s>>] # "none"

\* select(Enrolment) where course_id, user_id, status == ACTIVE
HasActiveEnrolment(enr, c, s) == enr[<<c, s>>] = "active"

\* get_dialog: the rows of the triple; scalar_one_or_none returns the row, None
\* if there is none, and raises MultipleResultsFound if there are several
get_dialog(rows, c, t, s) ==
    {x \in rows : x.course_id = c /\ x.teacher_id = t /\ x.student_id = s}

\* get_or_create_dialog is called: get_dialog, and create_dialog if none
get_or_create_dialog_begin(p, c, t, s) ==
    /\ ~DRunning(dcalls[p])
    /\ \A q \in DCallIds : q < p => DRunning(dcalls[q])
    /\ dcalls' = [dcalls EXCEPT ![p] =
                     [pc |-> IF Cardinality(get_dialog(dialogs, c, t, s)) > 1
                                 THEN "multiple_results"
                             ELSE IF get_dialog(dialogs, c, t, s) # {} THEN "found"
                             ELSE "creating",
                      course |-> c, teacher |-> t, student |-> s]]
    /\ UNCHANGED <<courses, enrolments, dialogs, unique_index, registryVars, messageVars, requestVars, telegramVars, roleVars>>

\* create_dialog is called directly
create_dialog_begin(p, c, t, s) ==
    /\ ~DRunning(dcalls[p])
    /\ \A q \in DCallIds : q < p => DRunning(dcalls[q])
    /\ dcalls' = [dcalls EXCEPT ![p] =
                     [pc |-> "creating", course |-> c, teacher |-> t, student |-> s]]
    /\ UNCHANGED <<courses, enrolments, dialogs, unique_index, registryVars, messageVars, requestVars, telegramVars, roleVars>>

\* create_dialog: db.get(Course, course_id), 404 if there is none
create_dialog_course(p) ==
    /\ dcalls[p].pc = "creating"
    /\ dcalls' = [dcalls EXCEPT ![p].pc =
                     IF dcalls[p].course \in courses THEN "course_ok" ELSE "not_found"]
    /\ UNCHANGED <<courses, enrolments, dialogs, unique_index, registryVars, messageVars, requestVars, telegramVars, roleVars>>

\* create_dialog: the enrolment query, 403 if the student has no ACTIVE row
create_dialog_enrolment(p) ==
    /\ dcalls[p].pc = "course_ok"
    /\ dcalls' = [dcalls EXCEPT ![p].pc =
                     IF HasActiveEnrolment(enrolments, dcalls[p].course, dcalls[p].student)
                         THEN "enrolled" ELSE "forbidden"]
    /\ UNCHANGED <<courses, enrolments, dialogs, unique_index, registryVars, messageVars, requestVars, telegramVars, roleVars>>

\* create_dialog: Dialog(...), db.add, commit, refresh.  On a table that has
\* the unique index of migration 0004 the commit of a second row for a triple
\* raises IntegrityError; the table made from the Dialog class has no such index.
create_dialog_commit(p) ==
    /\ dcalls[p].pc = "enrolled"
    /\ Cardinality(dialogs) < MaxDialogs
    /\ LET me == dcalls[p]
       IN  IF unique_index /\ get_dialog(dialogs, me.course, me.teacher, me.student) # {}
               THEN /\ dcalls' = [dcalls EXCEPT ![p].pc = "integrity_error"]
                    /\ UNCHANGED dialogs
               ELSE /\ dialogs' = dialogs \cup
                           {[id |-> Cardinality(dialogs) + 1, course_id |-> me.course,
                             teacher_id |-> me.teacher, student_id |-> me.student]}
                    /\ dcalls' = [dcalls EXCEPT ![p].pc = "created"]
    /\ UNCHANGED <<courses, enrolments, unique_index, registryVars, messageVars, requestVars, telegramVars, roleVars>>

\* ------------------------------------------------------------ initial states
\* no create_message has run: an empty Redis and an empty messages table
RedisEmpty ==
    /\ now = 0
    /\ redis = [count |-> [k \in Users |-> 0], expire |-> [k \in Users |-> NoExpiry]]
    /\ winStart = [k \in Users |-> 0]
    /\ reqs = [p \in Calls |-> IdleReq]
    /\ messages = <<>>
    /\ chat = IdleChat

\* the fixture of the message tests: course 1 with teacher 1 and student 2,
\* the student enrolled, and their dialog
DialogFixture ==
    /\ courses = {1}
    /\ enrolments = [x \in Courses \X Users |->
                        IF x = <<1, 2>> THEN "active" ELSE "none"]
    /\ dialogs = {[id |-> 1, course_id |-> 1, teacher_id |-> 1, student_id |-> 2]}
    /\ dcalls = [p \in DCallIds |-> IdleDCall]
    /\ unique_index = TRUE

\* course 1 with student 2 enrolled and user 3 not, or no longer; no dialog yet;
\* the schema comes from the migrations or from Base.metadata.create_all
DialogsEmpty ==
    /\ courses = {1}
    /\ \E st \in (Statuses \cup {"none"}) \ {"active"} :
           enrolments = [x \in Courses \X Users |->
                            IF x = <<1, 2>> THEN "active"
                            ELSE IF x = <<1, 3>> THEN st ELSE "none"]
    /\ dialogs = {}
    /\ dcalls = [p \in DCallIds |-> IdleDCall]
    /\ unique_index \in BOOLEAN

\* ------------------------------------------------------------ specifications
NextRegistry ==
    \/ \E c \in Conns, u \in UserChoices : handle_websocket_connect(c, u)
    \/ \E c \in Conns : handle_websocket_closed(c)
    \/ \E t \in Calls, u \in UserChoices, n \in notifications :
           send_notification_start(t, u, n)
    \/ \E t \in Calls, ok \in BOOLEAN : send_notification_resume(t, ok)

InitRegistry == PatchIdle /\ TelegramIdle /\ RolesFixture /\ RegistryEmpty /\ RedisEmpty /\ DialogFixture

SpecRegistry == InitRegistry /\ [][NextRegistry]_vars

\* the handler with every way its receive loop ends; a send_json that is awaited
\* returns or raises in the end
NextHandler ==
    \/ \E c \in Conns, u \in UserChoices : handle_websocket_connect(c, u)
    \/ \E c \in Conns : handle_websocket_closed(c)
    \/ \E c \in Conns : handle_websocket_cancelled(c)
    \/ \E t \in Calls, u \in UserChoices, n \in notifications :
           send_notification_start(t, u, n)
    \/ \E t \in Calls, ok \in BOOLEAN : send_notification_resume(t, ok)

InitHandler == PatchIdle /\ TelegramIdle /\ RolesFixture /\ RegistryEmpty /\ RedisEmpty /\ DialogFixture

SpecHandlerFair ==
    /\ InitHandler
    /\ [][NextHandler]_vars
    /\ WF_vars(\E t \in Calls, ok \in BOOLEAN : send_notification_resume(t, ok))

NextConnectTwice ==
    \/ \E c \in Conns, u \in UserChoices : handle_websocket_connect(c, u)
    \/ \E c \in Conns : connect_twice(c)
    \/ \E c \in Conns : handle_websocket_closed(c)
    \/ \E t \in Calls, u \in UserChoices, n \in notifications :
           send_notification_start(t, u, n)
    \/ \E t \in Calls, ok \in BOOLEAN : send_notification_resume(t, ok)

InitConnectTwice == PatchIdle /\ TelegramIdle /\ RolesFixture /\ RegistryEmpty /\ RedisEmpty /\ DialogFixture

SpecConnectTwice == InitConnectTwice /\ [][NextConnectTwice]_vars

\* ------------------------------------------- PATCH /notifications/{id}
NotifIds == 1 .. MaxNotifications

\* services update_notification: db.get, setattr of the fields that are set
\* (NotificationUpdate has the one required field delivered), commit, refresh
update_notification(store, id, delivered) ==
    {IF n.id = id THEN [n EXCEPT !.delivered = delivered] ELSE n : n \in store}

\* mark_notifications_as_delivered: the table after the undelivered rows of
\* user_id are set delivered and committed
mark_notifications_as_delivered(store, u) ==
    {IF n.user_id = u /\ ~n.delivered THEN [n EXCEPT !.delivered = TRUE] ELSE n :
         n \in store}

\* a call of mark_notifications_as_delivered(db, user_id)
mark_delivered(u) ==
    /\ notifications' = mark_notifications_as_delivered(notifications, u)
    /\ UNCHANGED <<active_connections, ws, calls, disconnected, failedSends, messageVars,
                   dialogVars, requestVars, telegramVars, roleVars>>

\* the route, up to the return of notification_service.update_notification:
\* the row is fetched by its id alone and, when it exists, updated and
\* committed; when it does not the route raises 404
route_update_notification_begin(caller, id, delivered) ==
    /\ patch.pc # "updated"
    /\ IF \E n \in notifications : n.id = id
          THEN LET row == CHOOSE n \in notifications : n.id = id
               IN  /\ notifications' = update_notification(notifications, id, delivered)
                   /\ patch' = [pc |-> "updated", id |-> id, caller |-> caller,
                                before |-> row.delivered]
          ELSE /\ patch' = [pc |-> "404", id |-> id, caller |-> caller,
                            before |-> FALSE]
               /\ UNCHANGED notifications
    /\ UNCHANGED <<active_connections, ws, calls, disconnected, failedSends, messageVars,
                   dialogVars, listing, telegramVars, roleVars>>

\* the rest of the route: the ownership check on the row that was returned
route_update_notification_respond ==
    /\ patch.pc = "updated"
    /\ LET row == CHOOSE n \in notifications : n.id = patch.id
       IN  patch' = [patch EXCEPT !.pc = IF row.user_id # patch.caller
                                            THEN "403" ELSE "200"]
    /\ UNCHANGED <<registryVars, messageVars, dialogVars, listing, telegramVars, roleVars>>

NextPatch ==
    \/ \E u \in Users : handle_new_grade(u)
    \/ \E u \in Users : handle_new_message(u)
    \/ \E u \in Users : handle_submission_status(u)
    \/ \E u \in Users, id \in NotifIds, delivered \in BOOLEAN :
           route_update_notification_begin(u, id, delivered)
    \/ route_update_notification_respond

InitPatch == PatchIdle /\ TelegramIdle /\ RolesFixture /\ RegistryTwoSockets /\ RedisEmpty /\ DialogFixture

SpecPatch == InitPatch /\ [][NextPatch]_vars

\* the delivered flag: rows are created (by one of the three event handlers,
\* which differ in the row's type only), pushed, patched and marked delivered
NextDelivered ==
    \/ \E u \in UserChoices : handle_new_grade(u)
    \/ \E t \in Calls, u \in UserChoices, n \in notifications :
           send_notification_start(t, u, n)
    \/ \E t \in Calls, ok \in BOOLEAN : send_notification_resume(t, ok)
    \/ \E u \in UserChoices, id \in NotifIds, delivered \in BOOLEAN :
           route_update_notification_begin(u, id, delivered)
    \/ route_update_notification_respond
    \/ \E u \in UserChoices : mark_delivered(u)

InitDelivered == PatchIdle /\ TelegramIdle /\ RolesFixture /\ RegistryTwoSockets /\ RedisEmpty /\ DialogFixture

SpecDelivered == InitDelivered /\ [][NextDelivered]_vars

NextNotify ==
    \/ \E u \in UserChoices : handle_new_grade(u)
    \/ \E u \in UserChoices : handle_new_message(u)
    \/ \E u \in UserChoices : handle_submission_status(u)
    \/ \E c \in Conns : handle_websocket_closed(c)
    \/ \E t \in Calls, u \in UserChoices, n \in notifications :
           send_notification_start(t, u, n)
    \/ \E t \in Calls, ok \in BOOLEAN : send_notification_resume(t, ok)

InitNotify == PatchIdle /\ TelegramIdle /\ RolesFixture /\ RegistryTwoSockets /\ RedisEmpty /\ DialogFixture

SpecNotify == InitNotify /\ [][NextNotify]_vars

NextMessage ==
    \/ \E p \in Calls, d \in DialogIds, s \in Senders, b \in Bodies, up \in BOOLEAN :
           create_message_begin(p, d, s, b, up)
    \/ \E p \in Calls : create_message_after_incr(p)
    \/ \E p \in Calls : create_message_after_expire(p)
    \/ \E p \in Calls : create_message_fails(p)
    \/ Tick

InitMessage == PatchIdle /\ TelegramIdle /\ RolesFixture /\ RegistryEmpty /\ RedisEmpty /\ DialogFixture

SpecMessage == InitMessage /\ [][NextMessage]_vars

NextRead ==
    \/ \E d \in DialogIds, b \in Bodies : db_add_message(d, 1, b)
    \/ \E d \in DialogIds, skip \in Skips, limit \in Limits :
           route_get_messages(d, skip, limit)
    \/ Tick

InitRead == PatchIdle /\ TelegramIdle /\ RolesFixture /\ RegistryEmpty /\ RedisEmpty /\ DialogFixture

SpecRead == InitRead /\ [][NextRead]_vars

\* posts over HTTP by the student of the fixture dialog, with markup in them
NextSanitize ==
    \/ \E p \in Calls, b \in XssBodies : create_message_begin(p, 1, 2, b, TRUE)
    \/ \E p \in Calls : create_message_after_incr(p)
    \/ \E p \in Calls : create_message_after_expire(p)

InitSanitize == PatchIdle /\ TelegramIdle /\ RolesFixture /\ RegistryEmpty /\ RedisEmpty /\ DialogFixture

SpecSanitize == InitSanitize /\ [][NextSanitize]_vars

NextTelegram ==
    \/ \E u \in TgCallers : check_rate_limit_global(u)
    \/ check_rate_limit_user
    \/ Tick

InitTelegram == PatchIdle /\ TelegramIdle /\ RolesFixture /\ RegistryEmpty /\ RedisEmpty /\ DialogFixture

SpecTelegram == InitTelegram /\ [][NextTelegram]_vars

NextBind ==
    \/ \E k \in Tokens, u \in Users : generate_bind_token(k, u)
    \/ \E b \in BindCalls, k \in Tokens, tid \in TelegramIds : bind_account_get(b, k, tid)
    \/ \E b \in BindCalls : bind_account_commit(b)
    \/ \E b \in BindCalls : bind_account_delete(b)
    \/ Tick

InitBind == PatchIdle /\ TelegramIdle /\ RolesFixture /\ RegistryEmpty /\ RedisEmpty /\ DialogFixture

SpecBind == InitBind /\ [][NextBind]_vars

NextRoles ==
    \/ \E u \in Users, r \in {"teacher", "assistant"} : create_with_course(u, r)
    \/ \E caller \in Users, course \in Courses, u \in Users :
           delete_course_role(caller, course, u)

InitRoles == PatchIdle /\ TelegramIdle /\ RolesFixture /\ RegistryEmpty /\ RedisEmpty /\ DialogFixture

SpecRoles == InitRoles /\ [][NextRoles]_vars

NextChat ==
    \/ \E u \in ChatUsers, d \in DialogIds : chat_handle_websocket(u, d)
    \/ \E p \in Calls, b \in Bodies, up \in BOOLEAN : chat_receive(p, b, up)
    \/ \E p \in Calls, d \in DialogIds, s \in Senders, b \in Bodies, up \in BOOLEAN :
           create_message_begin(p, d, s, b, up)
    \/ \E p \in Calls : create_message_after_incr(p)
    \/ \E p \in Calls : create_message_after_expire(p)

InitChat == PatchIdle /\ TelegramIdle /\ RolesFixture /\ RegistryEmpty /\ RedisEmpty /\ DialogFixture

SpecChat == InitChat /\ [][NextChat]_vars

NextStore ==
    \/ \E p \in Calls, d \in DialogIds, s \in Senders, b \in Bodies, up \in BOOLEAN :
           create_message_begin(p, d, s, b, up)
    \/ \E p \in Calls : create_message_after_incr(p)
    \/ \E p \in Calls : create_message_after_expire(p)
    \/ \E p \in Calls : create_message_fails(p)

InitStore == PatchIdle /\ TelegramIdle /\ RolesFixture /\ RegistryEmpty /\ RedisEmpty /\ DialogFixture

SpecStore == InitStore /\ [][NextStore]_vars

NextDialog ==
    \/ \E p \in DCallIds, c \in Courses, t \in Teachers, s \in Users :
           get_or_create_dialog_begin(p, c, t, s)
    \/ \E p \in DCallIds, c \in Courses, t \in Teachers, s \in Users :
           create_dialog_begin(p, c, t, s)
    \/ \E p \in DCallIds : create_dialog_course(p)
    \/ \E p \in DCallIds : create_dialog_enrolment(p)
    \/ \E p \in DCallIds : create_dialog_commit(p)

InitDialog == PatchIdle /\ TelegramIdle /\ RolesFixture /\ RegistryEmpty /\ RedisEmpty /\ DialogsEmpty

SpecDialog == InitDialog /\ [][NextDialog]_vars

NextGetOrCreate ==
    \/ \E p \in DCallIds, c \in Courses, t \in Teachers, s \in Users :
           get_or_create_dialog_begin(p, c, t, s)
    \/ \E p \in DCallIds : create_dialog_course(p)
    \/ \E p \in DCallIds : create_dialog_enrolment(p)
    \/ \E p \in DCallIds : create_dialog_commit(p)

InitGetOrCreate == PatchIdle /\ TelegramIdle /\ RolesFixture /\ RegistryEmpty /\ RedisEmpty /\ DialogsEmpty

SpecGetOrCreate == InitGetOrCreate /\ [][NextGetOrCreate]_vars

\* ---------------------------------------------------------- registry claims
\* a send_json call is made on a socket in this step
SendBegins(t) ==
    /\ calls'[t].pc = "sending"
    /\ calls[t].pc # "sending" \/ calls'[t].idx # calls[t].idx

\* C1: a send_notification call that returns has attempted exactly one send on
\* every socket that was registered for its user when it started, also when a
\* send on another socket of the user raised.  Stated for the calls during
\* which no other coroutine changed the user's list.
C1_EveryRegisteredSocketSentOnce ==
    [][\A t \in Calls :
          (calls[t].pc = "sending" /\ calls'[t].pc = "done" /\ calls[t].quiet)
              => (calls[t].todo = {} /\ ~calls[t].again)]_registryVars

\* C2: the socket a send_notification(u, n) call sends on is registered under
\* no user other than u, and it is a socket that u's handler opened.
C2_NoSendToOtherUsers ==
    \A t \in Calls :
        calls[t].pc = "sending" =>
            /\ ws[calls[t].cur].user = calls[t].user
            /\ \A v \in DOMAIN active_connections :
                   v # calls[t].user => ~Contains(active_connections[v], calls[t].cur)

C2_Witness ==
    \E t \in Calls, v \in DOMAIN active_connections :
        /\ calls[t].pc = "sending"
        /\ v # calls[t].user
        /\ calls[t].user \in DOMAIN active_connections

\* C3: once disconnect(c, u) has returned, no send is begun on c any more; in
\* particular no send_notification that starts afterwards sends on c.
C3_NoSendAfterDisconnect ==
    [][\A t \in Calls : SendBegins(t) => calls'[t].cur \notin disconnected']_registryVars

C3_Witness ==
    \E t \in Calls, c \in disconnected :
        /\ calls[t].pc = "sending"
        /\ calls[t].afterGone
        /\ ws[c].user = calls[t].user
        /\ ws[c].pc = "closed"

\* C4: a socket whose send raised inside send_notification is registered under
\* no user from the failure on (so also when that call returns), and no later
\* send is begun on it.
C4_FailedSocketDeregistered ==
    /\ [](\A c \in failedSends : \A u \in DOMAIN active_connections :
             ~Contains(active_connections[u], c))
    /\ [][\A t \in Calls : SendBegins(t) => calls'[t].cur \notin failedSends']_registryVars

C4_Witness ==
    \E t \in Calls, c \in failedSends :
        /\ calls[t].pc = "sending"
        /\ calls[t].afterFailed
        /\ ws[c].user = calls[t].user

\* C5: send_notification returns normally whatever sends fail, under every
\* interleaving with connect and disconnect: no call ends with an exception.
C5_SendNotificationReturns == \A t \in Calls : calls[t].pc # "raised"

\* --------------------------------------------------------- pipeline claims
\* C8: for a user with two live sockets, the event handler that persists the
\* notification also invokes send once on each of the two sockets.
C8_EmitPushesToBothSockets ==
    [][\A n \in notifications' \ notifications :
          Len(bucket(active_connections, n.user_id)) = 2 =>
              \A c \in Elems(bucket(active_connections, n.user_id)) :
                  \E t \in Calls :
                      SendBegins(t) /\ calls'[t].cur = c /\ calls'[t].notif = n.id]_registryVars

\* C9: a notification that is being pushed has been committed to the store,
\* and no step, a failing send included, removes a committed notification.
C9_PersistedBeforePushAndKept ==
    /\ [](\A t \in Calls :
             calls[t].pc = "sending" => \E n \in notifications : n.id = calls[t].notif)
    /\ [][{n.id : n \in notifications} \subseteq {n.id : n \in notifications'}]_registryVars

C9_Witness ==
    /\ failedSends # {}
    /\ \E n \in notifications : ~n.delivered

\* ------------------------------------------------------------ chat claims
Posted(p) == Running(reqs[p]) /\ ~Running(reqs'[p]) /\ reqs'[p].pc # "failed"

\* C6: a post is rejected as rate-limited exactly when it is past the 5th of the
\* sender's 60-second window, the window starting with the first post counted;
\* a post made once the window has elapsed is accepted again.
C6_LimitedOnlyInsideWindow ==
    [][\A p \in Calls :
          Posted(p) =>
              reqs'[p].pc = IF /\ reqs[p].at < reqs[p].since + Window
                               /\ reqs[p].count > MessageLimit
                                THEN "rate_limited" ELSE "created"]_vars

\* C7: the counter and its expiry are one unit: whenever no create_message call
\* stands between its INCR and its EXPIRE, every key with a positive counter has
\* an expiry, also after a caller has failed between the two.
C7_CounterHasExpiry ==
    (\A p \in Calls : reqs[p].pc # "incremented") =>
        \A k \in Users : redis.count[k] > 0 => redis.expire[k] # NoExpiry

\* ---------------------------------------------------------- dialog claims
DTerminal(r) ==
    r.pc \in {"found", "created", "forbidden", "not_found", "integrity_error",
              "multiple_results"}

Returns(p) == ~DTerminal(dcalls[p]) /\ DTerminal(dcalls'[p])

NotActive(r) == enrolments[<<r.course, r.student>>] # "active"

PartyOf(d, u) ==
    \E dlg \in dialogs : dlg.id = d /\ u \in {dlg.teacher_id, dlg.student_id}

Called(p) == ~Running(reqs[p]) /\ reqs'[p] # reqs[p]

\* C11: the sender of every persisted Message is the teacher or the student of
\* its Dialog; a chat socket is accepted only for a party; a create_message by
\* any other identity ends Forbidden (403) and persists nothing.
C11_SenderIsParty ==
    /\ [](/\ \A i \in DOMAIN messages :
                PartyOf(messages[i].dialog_id, messages[i].sender_id)
          /\ chat.pc \in {"accepted", "busy", "closed_1011"} =>
                PartyOf(chat.dialog, chat.user))
    /\ [][\A p \in Calls :
             /\ Called(p)
             /\ DialogById(reqs'[p].dialog) # {}
             /\ ~PartyOf(reqs'[p].dialog, reqs'[p].sender)
             => reqs'[p].pc = "forbidden" /\ messages' = messages]_vars

C11_Witness ==
    /\ \E p \in Calls : reqs[p].pc = "forbidden" /\ reqs[p].sender = 3
    /\ \E i \in DOMAIN messages : messages[i].sender_id = 1
    /\ \E i \in DOMAIN messages : messages[i].sender_id = 2

\* C12: the rate-limit check comes after the dialog and sender checks and before
\* sanitization and persistence: a call ending not_found or forbidden leaves
\* Redis alone, the INCR of a call changes nothing but the sender's counter, and
\* a post rejected as rate-limited persists no Message and changes nothing else.
C12_RateLimitedChangesOnlyCounter ==
    [][\A p \in Calls :
          /\ Called(p) /\ reqs'[p].pc \in {"not_found", "forbidden"} =>
                redis' = redis /\ messages' = messages
          /\ Called(p) /\ Running(reqs'[p]) =>
                /\ PartyOf(reqs'[p].dialog, reqs'[p].sender)
                /\ redis'.expire = redis.expire
                /\ redis'.count =
                       [redis.count EXCEPT ![reqs'[p].sender] = @ + 1]
                /\ messages' = messages
          /\ Running(reqs[p]) /\ reqs'[p].pc = "rate_limited" =>
                /\ reqs[p].count > MessageLimit
                /\ messages' = messages
                /\ redis' = redis
                /\ dialogs' = dialogs]_vars

C12_Witness ==
    /\ \E p \in Calls : reqs[p].pc = "rate_limited"
    /\ Len(messages) >= MessageLimit

\* C19: create_message fails closed: a call whose Redis command raises ends with
\* an error and persists nothing, and every Message that is persisted comes from
\* a call whose INCR returned a count within the limit.
C19_FailsClosed ==
    [][/\ \A p \in Calls :
             reqs'[p] # reqs[p] /\ reqs'[p].pc \in {"store_error", "failed"} =>
                 messages' = messages
       /\ messages' # messages =>
             \E p \in Calls :
                 /\ Running(reqs[p])
                 /\ reqs[p].count \in 1..MessageLimit
                 /\ reqs'[p].pc = "created"
                 /\ Len(messages') = Len(messages) + 1]_vars

C19_Witness ==
    /\ \E p \in Calls : reqs[p].pc = "store_error"
    /\ messages # <<>>

\* ------------------------------------------------------ dialog claims, II
\* C13: after any interleaving of get_or_create_dialog calls there is at most
\* one Dialog per (course, teacher, student) triple.
C13_OneDialogPerTriple ==
    \A x, y \in dialogs :
        (x.course_id = y.course_id /\ x.teacher_id = y.teacher_id
            /\ x.student_id = y.student_id) => x = y

\* ------------------------------------------------------ registry claims, II
Registered(c) ==
    \E u \in DOMAIN active_connections : Contains(active_connections[u], c)

\* a send_notification call returns in this step, and no send of it has raised
ReturnsUnfailed(t) ==
    /\ calls[t].pc = "sending"
    /\ calls'[t].pc = "done"
    /\ (calls[t].seen \cup {calls[t].cur}) \cap failedSends' = {}

\* C14: no user key of the registry maps to an empty list; the user of a socket
\* that was the last of its list has no key any more.
C14_NoEmptyBucket ==
    \A u \in DOMAIN active_connections : active_connections[u] # <<>>

C14_Witness ==
    \E c \in Conns :
        /\ ws[c].pc = "closed"
        /\ ws[c].user \notin DOMAIN active_connections
        /\ active_connections # <<>>

\* C15: after connect is called twice for one socket the registry holds it
\* once: no list of the registry contains a socket at two positions (so a send
\* passes it once and one disconnect unregisters it).
C15_HeldOnce ==
    \A u \in DOMAIN active_connections :
        \A i, j \in DOMAIN active_connections[u] :
            active_connections[u][i] = active_connections[u][j] => i = j

\* C16: a connect or disconnect that runs while send_notification is suspended
\* in a send makes no socket miss the notification that was registered when the
\* call began and still is when it returns, and makes no socket get it twice.
C16_NoMissNoRepeatUnderInterleaving ==
    [][\A t \in Calls :
          /\ calls'[t].pc = "sending" => ~calls'[t].again
          /\ ReturnsUnfailed(t) =>
                \A c \in calls[t].todo : ~Registered(c)]_vars

\* ------------------------------------------------------ registry claims, III
\* the receive loop of the socket's handler has ended
LoopEnded(c) == ws[c].pc \in {"closed", "raised", "cancelled"}

\* C20: a socket registered by handle_websocket is removed from the registry
\* once its receive loop has ended, by a client close, a receive error or the
\* cancellation of the handler task: eventually it is registered no more.
C20_EndedLoopUnregisters ==
    \A c \in Conns : LoopEnded(c) ~> ~Registered(c)

\* ------------------------------------------- notification PATCH claims
\* C18: a PATCH of a notification by a user who does not own it is answered
\* 403 and the notification's delivered flag is what it was before the request.
C18_ForeignPatchLeavesUnchanged ==
    patch.pc = "403" =>
        \A n \in notifications : n.id = patch.id => n.delivered = patch.before

\* ------------------------------------------------------ get_messages claims
\* C17: get_messages returns a dialog's messages newest first, ordered by
\* created_at with equal timestamps broken by the message id: of two returned
\* rows the one returned first has the later created_at or, at equal
\* created_at, the higher id.
C17_ReadBackInPersistenceOrder ==
    \A i, j \in DOMAIN listing.rows :
        i < j =>
            \/ listing.rows[i].created_at > listing.rows[j].created_at
            \/ /\ listing.rows[i].created_at = listing.rows[j].created_at
               /\ listing.rows[i].id > listing.rows[j].id

\* ------------------------------------------------------ delivered flag claims
\* the row of this id gets delivered = TRUE in this step
BecomesDelivered(id) ==
    /\ \E n \in notifications : n.id = id /\ ~n.delivered
    /\ \E n \in notifications' : n.id = id /\ n.delivered

\* C22: a row is created with delivered = FALSE, no step of send_notification
\* changes the notifications table, and a row's flag becomes TRUE only in a
\* step of update_notification or of mark_notifications_as_delivered.
C22_PushLeavesDeliveredFlag ==
    [][/\ \A n \in notifications' :
              (\A m \in notifications : m.id # n.id) => ~n.delivered
       /\ calls' # calls => notifications' = notifications
       /\ \A id \in NotifIds :
              BecomesDelivered(id) =>
                  \/ patch'.pc = "updated" /\ patch'.id = id
                  \/ \E u \in Users :
                         /\ notifications' =
                                {IF n.user_id = u /\ ~n.delivered
                                     THEN [n EXCEPT !.delivered = TRUE] ELSE n :
                                 n \in notifications}
                         /\ UNCHANGED <<calls, patch>>]_vars

\* a push has sent the notification on the user's first socket, the send has
\* returned, and the row is not delivered
C22_Witness ==
    \E t \in Calls, n \in notifications :
        /\ calls[t].pc = "sending"
        /\ calls[t].notif = n.id
        /\ calls[t].idx = 2
        /\ failedSends = {}
        /\ ~n.delivered

\* ------------------------------------------------------ sanitization claims
\* tokens that contain `<script` and tokens that contain `javascript:`
HasScriptTag(tok) == tok = "<script>"

HasJavascriptUrl(tok) == tok \in {AHrefJavascript, "javascript:alert(1)"}

\* C23: the sanitized body that is stored is a fixed point of the sanitizer,
\* and it contains no `<script`, no `javascript:` and no tag outside the
\* allow-list.
C23_SanitizedIsCleanFixedPoint ==
    \A i \in DOMAIN messages :
        LET body == messages[i].body
        IN  /\ bleach_clean(body) = body
            /\ \A k \in DOMAIN body :
                   /\ ~HasScriptTag(body[k])
                   /\ ~HasJavascriptUrl(body[k])
                   /\ IsTag(body[k]) => body[k] \in allowed_tags \cup {AHrefHttp}

\* C24: a post of <script>alert(1)</script><p>hi</p> that is accepted stores
\* exactly <p>hi</p>.
C24_ScriptElementRemovedWithContent ==
    [][\A p \in Calls :
          (Posted(p) /\ reqs'[p].pc = "created" /\ reqs[p].body = ScriptThenParagraph)
              => messages'[Len(messages')].body = <<"<p>", "hi", "</p>">>]_vars

\* ------------------------------------------------------ bot rate limit claims
\* _check_rate_limit returns in this step
TgReturns ==
    /\ tg_call' # tg_call
    /\ tg_call'.pc \in {"allowed", "denied_global", "denied_user"}

\* C25: _check_rate_limit allows a call exactly when the global counter is
\* within 100 and the caller's counter within 20; a key that exists expires 60
\* seconds after the increment that created it; and a call that is denied by
\* one limit leaves the counter of the other limit as it was before the call.
C25_IndependentLimits ==
    /\ [][TgReturns =>
             (tg_call'.pc = "allowed" <=>
                 /\ tg_redis'.count[GlobalKey] <= GLOBAL_RATE_LIMIT
                 /\ tg_call'.user # NoUser =>
                        tg_redis'.count[tg_call'.user] <= USER_RATE_LIMIT)]_vars
    /\ [](\A k \in TgKeys :
             tg_redis.count[k] > 0 => tg_redis.expire[k] = tg_redis.since[k] + TgWindow)
    /\ [][(TgReturns /\ tg_call'.at = now) =>
             /\ (tg_call'.pc = "denied_global" /\ tg_call'.user # NoUser) =>
                    tg_redis'.count[tg_call'.user] = tg_call'.user0
             /\ tg_call'.pc = "denied_user" =>
                    tg_redis'.count[GlobalKey] = tg_call'.global0]_vars

\* ------------------------------------------------------ registry claims, IV
\* C27: disconnect for a socket that is not registered under the user raises
\* nothing: no handler's disconnect, called after a failed send has already
\* removed the socket, ends with an exception.
C27_DisconnectUnregisteredIsNoOp == \A c \in Conns : ws[c].pc # "raised"

\* ------------------------------------------------------ rate window claims
\* C28: the expiry of a sender's key, once set, is not moved by any later
\* increment, and a post is rejected as rate-limited only less than 60 seconds
\* after the first post of its window: whoever keeps posting while limited is
\* accepted again 60 seconds after that first post at the latest.
C28_WindowNeverExtended ==
    /\ [][\A k \in Users :
             (redis.expire[k] # NoExpiry /\ redis'.expire[k] # NoExpiry)
                 => redis'.expire[k] = redis.expire[k]]_vars
    /\ [][\A p \in Calls :
             (Posted(p) /\ reqs'[p].pc = "rate_limited")
                 => reqs[p].at < reqs[p].since + Window]_vars

\* ------------------------------------------------------ chat claims, IV
ChatRefused == chat.pc \in {"closed_4004", "closed_4003"}

\* C30: the chat socket is accepted only when the dialog exists and the user is
\* one of its two parties; otherwise it is closed with 4004 (no dialog) or 4003
\* (no party) without being accepted, and from then on no frame is read on it
\* and no Message is persisted on it.
C30_AcceptedOnlyForParty ==
    /\ [](/\ chat.pc \in {"accepted", "busy", "closed_1011"}
                => /\ \E dlg \in dialogs : dlg.id = chat.dialog
                   /\ PartyOf(chat.dialog, chat.user)
          /\ ChatRefused
                => \A p \in Calls : ~(Running(reqs[p]) /\ reqs[p].via = "ws"))
    /\ [][(chat.pc = "new" /\ chat' # chat)
             => chat'.pc = IF \A dlg \in dialogs : dlg.id # chat'.dialog THEN "closed_4004"
                           ELSE IF ~PartyOf(chat'.dialog, chat'.user) THEN "closed_4003"
                           ELSE "accepted"]_vars
    /\ [][ChatRefused
             => /\ chat' = chat
                /\ \A p \in Calls : reqs'[p].via = "ws" => reqs'[p] = reqs[p]
                /\ messages' # messages
                      => \E p \in Calls : /\ Running(reqs[p]) /\ reqs[p].via = "http"
                                           /\ reqs'[p] # reqs[p]]_vars

C30_Witness ==
    /\ chat.pc = "closed_4003"
    /\ chat.user = 3
    /\ chat.dialog = 1
    /\ Len(messages) > 0

\* ------------------------------------------------------ bind token claims
\* C29: a bind token yields at most one successful bind, also when two bind
\* requests for it run concurrently.
C29_TokenBindsOnce ==
    \A k \in Tokens :
        Cardinality({b \in BindCalls : binds[b].pc = "bound" /\ binds[b].token = k}) <= 1

\* ------------------------------------------------------ course role claims
\* C26: a request to delete the role of the course's owner is answered 400
\* (Cannot delete owner role) and the owner's role row is present afterwards.
C26_OwnerRoleCannotBeDeleted ==
    (/\ role_request.pc # "idle"
     /\ role_request.course_id = OwnerRole.course_id
     /\ role_request.user_id = OwnerRole.user_id)
        => (role_request.pc = "400" /\ OwnerRole \in course_roles)

\* ------------------------------------------------------ chat socket claims
\* the create_message call of a frame of the chat socket ends in this step
\* with the outcome `how`
FrameEnds(p, how) ==
    /\ reqs[p].via = "ws"
    /\ Running(reqs[p])
    /\ reqs'[p].pc = how

\* C21: in the chat socket's loop a rate-limited or forbidden frame ends that
\* frame only: the socket is open afterwards and receives the next frame.
C21_RejectedFrameKeepsSocketOpen ==
    [][\A p \in Calls :
          (FrameEnds(p, "rate_limited") \/ FrameEnds(p, "forbidden"))
              => chat'.pc = "accepted"]_vars

=============================================================================
